---- MODULE Spec2Model ----
(***************************************************************************)
(* Model of scrapegraphai/nodes/parse_node.py: the ParseNode graph node.   *)
(* A node is constructed from a node_config (ParseNode.__init__) and then  *)
(* executed on a shared state mapping (ParseNode.execute).  execute is     *)
(* modelled as one atomic step whose outcome is computed, line by line, by *)
(* the operator execute below; Python values are tagged records so that a  *)
(* TypeError / AttributeError raised by an expression is an outcome of the *)
(* model rather than something the model silently repairs.                 *)
(***************************************************************************)
EXTENDS Integers, Sequences, FiniteSets, TLC

VARIABLES
    pc,        \* "new": no node yet; "ready": node constructed; "done": execute was called
    node,      \* the ParseNode (parse_html, llm_model, node_config, output)
    state,     \* the state mapping passed to execute, key -> value
    pre,       \* the state mapping as it was when the last execute call began
    tokens,    \* the token count the backend's counter reports for the text
    result,    \* outcome of the last call: "none", "ok" or the exception raised
    returned   \* <<mapping>> returned by the last execute call, <<>> if none

vars == <<pc, node, state, pre, tokens, result, returned>>

----------------------------------------------------------------------------
(* Bounds of the model *)

\* longest document text, in characters
MaxTextLen == 3
\* largest total token count the (external) token counter reports
MaxTokens == 4

----------------------------------------------------------------------------
(* Values *)

\* Python values, tagged with their type
PyStr(s) == [t |-> "str", v |-> s]
PyInt(n) == [t |-> "int", n |-> n]
\* a float, held exactly in tenths: PyFloat(9) is 0.9, PyFloat(18) is 1.8
PyFloat(tenths) == [t |-> "float", n |-> tenths]
PyDocument(text) == [t |-> "Document", v |-> text]
PyErr(e) == [t |-> "err", e |-> e]
PyNone == [t |-> "None"]
\* no entry under a key of the state mapping
Absent == [form |-> "absent"]

\* characters of a document text: a letter, whitespace, an HTML tag character
Alphabet == {"a", " ", "<"}

RECURSIVE SeqsUpTo(_, _)
SeqsUpTo(S, n) ==
    IF n = 0 THEN {<<>>}
    ELSE LET shorter == SeqsUpTo(S, n - 1)
         IN shorter \cup {Append(s, c) : s \in {x \in shorter : Len(x) = n - 1}, c \in S}

Texts == SeqsUpTo(Alphabet, MaxTextLen)

\* the keys of the state mapping: the node's input key, its output key, and
\* a key the node has nothing to do with
InputKey == "document"
OutputKey == "parsed_doc"
OtherKey == "url"
Keys == {InputKey, OutputKey, OtherKey}

\* the value under the input key: a list holding one Document whose
\* page_content is text (form "docs"), or a raw string (form "str")
Inputs == [form : {"docs", "str"}, text : Texts]

\* model names: None (the name of a chat model is optional), the empty
\* string, no "/" separator, a non-numeric last segment, an empty last
\* segment, and provider/window names with windows 2 and 5
Names == {PyNone} \cup
         {PyStr(s) : s \in {<<>>, <<"m">>, <<"o", "/", "m">>, <<"o", "/">>,
                            <<"o", "/", "2">>, <<"o", "/", "5">>}}

Kinds == {"OPENAI", "MISTRAL", "OLLAMA", "GENERIC"}

LlmModels == [kind : Kinds, name : Names]

\* node_config as passed to the constructor; chunk_size None = key not set
NodeConfigs == [parse_html : BOOLEAN, llm_model : LlmModels,
                chunk_size : {PyNone, PyInt(502)}]

NoNode == [constructed |-> FALSE]

----------------------------------------------------------------------------
(* Python values *)

IsErr(x) == x.t = "err"

\* the number of tenths in a number
Tenths(x) == IF x.t = "int" THEN 10 * x.n ELSE x.n

RECURSIVE Repeat(_, _)
Repeat(s, n) == IF n <= 0 THEN <<>> ELSE s \o Repeat(s, n - 1)

\* a * b
PyMul(a, b) ==
    IF a.t = "str" /\ b.t = "int" THEN PyStr(Repeat(a.v, b.n))
    ELSE IF a.t = "str" \/ b.t = "str" THEN PyErr("TypeError")
    ELSE IF a.t = "int" /\ b.t = "int" THEN PyInt(a.n * b.n)
    ELSE PyFloat((Tenths(a) * Tenths(b)) \div 10)

\* a // b
PyFloorDiv(a, b) ==
    IF Tenths(b) = 0 THEN PyErr("ZeroDivisionError")
    ELSE IF a.t = "int" /\ b.t = "int" THEN PyInt(a.n \div b.n)
    ELSE PyFloat(10 * (Tenths(a) \div Tenths(b)))

\* a % b != 0
PyModNonZero(a, b) == Tenths(a) % Tenths(b) # 0

\* a + 1
PyInc(a) == IF a.t = "int" THEN PyInt(a.n + 1) ELSE PyFloat(a.n + 10)

----------------------------------------------------------------------------
(* Strings *)

\* name.split("/")[-1]: the text after the last "/", the whole string when
\* it has none
RECURSIVE LastSegment(_)
LastSegment(s) ==
    IF s = <<>> THEN <<>>
    ELSE IF s[Len(s)] = "/" THEN <<>>
    ELSE Append(LastSegment(SubSeq(s, 1, Len(s) - 1)), s[Len(s)])

\* s[start:end] with 0-based integer offsets, clipped to the string
Slice(s, start, end) ==
    SubSeq(s, (IF start < Len(s) THEN start ELSE Len(s)) + 1,
              IF end < Len(s) THEN end ELSE Len(s))

\* text.split(): the whitespace-delimited words of a text
RECURSIVE Words(_)
Words(s) ==
    IF s = <<>> THEN <<>>
    ELSE LET init == Words(SubSeq(s, 1, Len(s) - 1))
             c == s[Len(s)]
         IN IF c = " " THEN init
            ELSE IF Len(s) > 1 /\ s[Len(s) - 1] # " "
                 THEN [init EXCEPT ![Len(init)] = Append(@, c)]
                 ELSE Append(init, <<c>>)

token_counter(text) == Len(Words(text))

\* HTML-to-text normalisation of a page: the tag characters are removed
RECURSIVE Html2Text(_)
Html2Text(s) ==
    IF s = <<>> THEN <<>>
    ELSE IF s[1] = "<" THEN Html2Text(Tail(s))
    ELSE <<s[1]>> \o Html2Text(Tail(s))

\* semchunk.chunk(text, chunk_size, token_counter = word count): a text within
\* the budget is its own single chunk; otherwise the words are grouped, left
\* to right, into chunks of at most chunk_size words
RECURSIVE Join(_)
Join(ws) ==
    IF ws = <<>> THEN <<>>
    ELSE IF Len(ws) = 1 THEN ws[1]
    ELSE ws[1] \o <<" ">> \o Join(Tail(ws))

RECURSIVE GroupWords(_, _)
GroupWords(ws, size) ==
    IF ws = <<>> THEN <<>>
    ELSE IF Len(ws) <= size \/ size < 1 THEN <<Join(ws)>>
    ELSE <<Join(SubSeq(ws, 1, size))>> \o GroupWords(SubSeq(ws, size + 1, Len(ws)), size)

chunk(text, chunk_size) ==
    IF token_counter(text) <= chunk_size THEN <<text>>
    ELSE GroupWords(Words(text), chunk_size)

----------------------------------------------------------------------------
(* ParseNode *)

\* ParseNode.__init__: node_config.get("llm_model") raises AttributeError when
\* node_config is None; otherwise the node keeps parse_html, llm_model and
\* the node_config itself
ParseNode(node_config) ==
    IF node_config = PyNone THEN PyErr("AttributeError")
    ELSE [t |-> "ParseNode", constructed |-> TRUE,
          parse_html |-> node_config.parse_html,
          llm_model |-> node_config.llm_model,
          node_config |-> node_config,
          output |-> <<OutputKey>>]

\* BaseNode.get_input_keys: the keys the node's input expression names, a
\* lookup failure when the state does not hold them
get_input_keys(st) ==
    IF st[InputKey] = Absent THEN PyErr("KeyError") ELSE [t |-> "keys", v |-> <<InputKey>>]

\* lines 72-77: Html2TextTransformer().transform_documents(input_data[0])[0]
\* when parse_html is set, input_data[0][0] otherwise.  The transformer reads
\* page_content of every element of its argument, so a raw string fails in
\* it (no element to index when the string is empty); the first element of a
\* raw string is its first character.
docs_transformed(parse_html, input) ==
    IF parse_html
    THEN IF input.form = "docs" THEN PyDocument(Html2Text(input.text))
         ELSE IF input.text = <<>> THEN PyErr("IndexError")
         ELSE PyErr("AttributeError")
    ELSE IF input.form = "docs" THEN PyDocument(input.text)
         ELSE IF input.text = <<>> THEN PyErr("IndexError")
         ELSE PyStr(<<input.text[1]>>)

\* line 79: self.llm_model.name.split("/")[-1] * 0.9
context_window(llm_model) ==
    IF llm_model.name = PyNone THEN PyErr("AttributeError")
    ELSE PyMul(PyStr(LastSegment(llm_model.name.v)), PyFloat(9))

\* docs_transformed.page_content
page_content(doc) ==
    IF doc.t = "Document" THEN PyStr(doc.v) ELSE PyErr("AttributeError")

\* lines 84-93 and 99-108: num_chunks = num_tokens // context_window, one
\* more when the division leaves a remainder; range(num_chunks) accepts an
\* int only, and so do the slice offsets i * context_window
SliceChunks(text, num_tokens, cw) ==
    LET q == PyFloorDiv(PyInt(num_tokens), cw)
        num_chunks == IF PyModNonZero(PyInt(num_tokens), cw) THEN PyInc(q) ELSE q
    IN IF IsErr(q) THEN [result |-> q.e, chunks |-> <<>>]
       ELSE IF num_chunks.t # "int" THEN [result |-> "TypeError", chunks |-> <<>>]
       ELSE [result |-> "ok",
             chunks |-> [i \in 1..num_chunks.n |->
                            Slice(text, (i - 1) * cw.n, i * cw.n)]]

\* lines 114-115: min(chunk_size - 500, int(chunk_size * 0.9))
ChunkSize(node_config) ==
    LET chunk_size == IF node_config.chunk_size = PyNone THEN 4096
                      ELSE node_config.chunk_size.n
        a == chunk_size - 500
        b == (chunk_size * 9) \div 10
    IN IF a < b THEN a ELSE b

Raise(e) == [result |-> e, chunks |-> <<>>]

\* ParseNode.execute, up to the update of the state: the outcome ("ok" or the
\* name of the exception raised) and the chunks bound at line 128
execute(self, st, num_tokens) ==
    LET input_keys == get_input_keys(st)
    IN IF IsErr(input_keys) THEN Raise(input_keys.e)
       ELSE
       LET doc == docs_transformed(self.parse_html, st[InputKey])
       IN IF IsErr(doc) THEN Raise(doc.e)
          ELSE
          LET cw == context_window(self.llm_model)
          IN IF IsErr(cw) THEN Raise(cw.e)
             ELSE IF self.llm_model.kind \in {"OPENAI", "MISTRAL"}
             THEN LET text == page_content(doc)
                  IN IF IsErr(text) THEN Raise(text.e)
                     ELSE SliceChunks(text.v, num_tokens, cw)
             ELSE IF self.llm_model.kind = "OLLAMA"
             THEN Raise("UnboundLocalError")
             ELSE [result |-> "ok",
                   chunks |-> chunk(doc.v, ChunkSize(self.node_config))]

----------------------------------------------------------------------------
(* The state machine *)

\* the state mappings a caller may pass: a document (or nothing) under the
\* input key, nothing yet under the output key, an unrelated entry
States ==
    {[k \in Keys |-> IF k = InputKey THEN d
                     ELSE IF k = OutputKey THEN Absent
                     ELSE [form |-> "str", text |-> <<"u">>]] : d \in Inputs \cup {Absent}}

Init ==
    /\ pc = "new"
    /\ node = NoNode
    /\ state \in States
    /\ pre = state
    /\ tokens \in 0..MaxTokens
    /\ result = "none"
    /\ returned = <<>>

\* ParseNode(input, output, node_config)
Construct ==
    /\ pc = "new"
    /\ \E node_config \in NodeConfigs \cup {PyNone} :
         LET n == ParseNode(node_config)
         IN IF IsErr(n)
            THEN /\ result' = n.e
                 /\ UNCHANGED <<pc, node>>
            ELSE /\ node' = n
                 /\ pc' = "ready"
                 /\ result' = "none"
    /\ UNCHANGED <<state, pre, tokens, returned>>

\* Execute with the output key bound before the body runs, so that a failed
\* call leaves an (empty) chunk list behind
ExecuteStoresBeforeFailing ==
    /\ pc \in {"ready", "done"}
    /\ LET out == execute(node, state, tokens)
       IN /\ result' = out.result
          /\ state' = [state EXCEPT ![node.output[1]] =
                           [form |-> "chunks", chunks |-> out.chunks]]
          /\ returned' = IF out.result = "ok" THEN <<state'>> ELSE <<>>
    /\ pre' = state
    /\ pc' = "done"
    /\ UNCHANGED <<node, tokens>>

\* node.execute(state): on success state.update({output[0]: chunks}) and the
\* state is returned; an exception leaves before line 128
Execute ==
    /\ pc \in {"ready", "done"}
    /\ LET out == execute(node, state, tokens)
       IN /\ result' = out.result
          /\ IF out.result = "ok"
             THEN /\ state' = [state EXCEPT ![node.output[1]] =
                                      [form |-> "chunks", chunks |-> out.chunks]]
                  /\ returned' = <<state'>>
             ELSE /\ state' = state
                  /\ returned' = <<>>
    /\ pre' = state
    /\ pc' = "done"
    /\ UNCHANGED <<node, tokens>>

Next == Construct \/ Execute

Spec == Init /\ [][Next]_vars

----------------------------------------------------------------------------
(* What the properties speak about *)

\* an execute call has returned or raised; pre is the state it was given
Called == pc = "done"

\* the call was given a Document under the input key
GivenDocument == pre[InputKey].form = "docs"

\* the text handed to the chunking step of the call
GivenText ==
    IF node.parse_html /\ GivenDocument THEN Html2Text(pre[InputKey].text)
    ELSE pre[InputKey].text

Digits == <<"0", "1", "2", "3", "4", "5", "6", "7", "8", "9">>

IsDigit(c) == \E i \in 1..Len(Digits) : Digits[i] = c

RECURSIVE Number(_)
Number(seg) ==
    IF seg = <<>> THEN 0
    ELSE 10 * Number(SubSeq(seg, 1, Len(seg) - 1))
         + (CHOOSE i \in 0..9 : Digits[i + 1] = seg[Len(seg)])

\* a backend name with a "/" separator whose last segment is a positive number
WellFormedName(name) ==
    /\ name.t = "str"
    /\ \E i \in 1..Len(name.v) : name.v[i] = "/"
    /\ LET seg == LastSegment(name.v)
       IN /\ seg # <<>>
          /\ \A i \in 1..Len(seg) : IsDigit(seg[i])
          /\ Number(seg) > 0

\* W * 0.9 in tenths, W the number in the last segment of the name
EffectiveWindowTenths(name) == 9 * Number(LastSegment(name.v))

\* ceil(a / b) for positive b
Ceil(a, b) == (a + b - 1) \div b

RECURSIVE Concat(_)
Concat(ss) == IF ss = <<>> THEN <<>> ELSE Head(ss) \o Concat(Tail(ss))

\* the call stored a chunk sequence under the output key
StoredChunks == result = "ok" /\ state[OutputKey].form = "chunks"

\* a call on a Document with a well-formed backend name
ValidCall == Called /\ GivenDocument /\ WellFormedName(node.llm_model.name)

\* the exceptions line 79 raises for a backend name
ConfigurationErrors == {"TypeError", "AttributeError"}

\* Since line 79 multiplies a str by a float, no call of execute reaches
\* line 128: the branches of execute after context_window are translated
\* above but no reachable call returns from them.
NoCallSucceeds == result # "ok"

----------------------------------------------------------------------------
(* Properties *)

\* C1: for an OPENAI or MISTRAL backend whose name yields window W and a
\* counter reporting T tokens, execute stores exactly ceil(T / (W*0.9)) chunks.
C1_ChunkCount ==
    (ValidCall /\ node.llm_model.kind \in {"OPENAI", "MISTRAL"})
    => /\ StoredChunks
       /\ Len(state[OutputKey].chunks)
            = Ceil(10 * tokens, EffectiveWindowTenths(node.llm_model.name))

\* C2: for an OPENAI or MISTRAL backend the chunks stored under the output
\* key, concatenated in order, are exactly the document text, whatever the
\* reported token count.
C2_ConcatenationIsText ==
    (ValidCall /\ node.llm_model.kind \in {"OPENAI", "MISTRAL"})
    => /\ StoredChunks
       /\ Concat(state[OutputKey].chunks) = GivenText

\* C3: execute stores a chunk sequence under the output key and every chunk
\* of it is a non-empty string, for every backend kind and every input.
C3_ChunksNonEmpty ==
    ValidCall
    => /\ StoredChunks
       /\ \A i \in 1..Len(state[OutputKey].chunks) :
            state[OutputKey].chunks[i] # <<>>

\* C4: for an OLLAMA backend execute raises no error and leaves an empty
\* chunk sequence under the output key, whatever the size of the document.
C4_OllamaEmptyNoError ==
    (ValidCall /\ node.llm_model.kind = "OLLAMA")
    => /\ StoredChunks
       /\ state[OutputKey].chunks = <<>>

\* C5: a missing or malformed backend name makes execute fail with a
\* configuration error before any chunking; a well-formed name raises no
\* such error and the window is the number in its last segment times 0.9.
C5_NameDecidesConfigurationError ==
    (Called /\ GivenDocument)
    => IF WellFormedName(node.llm_model.name)
       THEN /\ result \notin ConfigurationErrors
            /\ context_window(node.llm_model)
                 = PyFloat(EffectiveWindowTenths(node.llm_model.name))
       ELSE result \in ConfigurationErrors

\* C6: for every backend kind, an empty document text gives an empty chunk
\* sequence and no error.
C6_EmptyTextNoChunks ==
    (ValidCall /\ GivenText = <<>>)
    => /\ StoredChunks
       /\ state[OutputKey].chunks = <<>>

\* C7: for a GENERIC backend and a non-empty text, every stored chunk has at
\* most min(C-500, C*0.9) whitespace-delimited words, and the chunks are the
\* words of the text in document order, none repeated.
C7_GenericWordBudget ==
    (ValidCall /\ node.llm_model.kind = "GENERIC" /\ GivenText # <<>>)
    => /\ StoredChunks
       /\ \A i \in 1..Len(state[OutputKey].chunks) :
            token_counter(state[OutputKey].chunks[i]) <= ChunkSize(node.node_config)
       /\ Words(Join(state[OutputKey].chunks)) = Words(GivenText)

\* C8: execute accepts the document as a Document or as a raw string and
\* stores the same chunk sequence for the same text and backend.
C8_DocumentOrRawString ==
    (Called /\ pre[InputKey] # Absent /\ WellFormedName(node.llm_model.name))
    => LET other == [pre EXCEPT ![InputKey].form =
                        IF @ = "docs" THEN "str" ELSE "docs"]
       IN /\ StoredChunks
          /\ execute(node, other, tokens).result = "ok"
          /\ execute(node, other, tokens).chunks = state[OutputKey].chunks

C10_FailedCallLeavesState ==
    Called
    => /\ pre[InputKey] = Absent => result = "KeyError"
       /\ result # "ok" => state = pre /\ returned = <<>>

\* C10 witness: a call was made on a state without the input key and failed
C10_MissingKeyCallFailed ==
    Called /\ pre[InputKey] = Absent /\ result = "KeyError" /\ state = pre

====
